---- MODULE Spec2Model ----
(***************************************************************************)
(* Model of the ball simulation of src/logic.py (classes Ball, GameLogic). *)
(*                                                                         *)
(* Python floats are modelled as fixed-point integers: a float f is the    *)
(* integer f * Scale, and every product or quotient is truncated toward    *)
(* zero to that grid.  Colours are Python ints and are modelled exactly,   *)
(* including the IEEE-754 rounding of c1*0.6 + c2*0.4.                     *)
(* Python object identity of a Ball is the field id.                       *)
(***************************************************************************)
EXTENDS Integers, Sequences, FiniteSets, TLC

\* ------------------------------------------------------------------ bounds
MaxBalls == 2
MaxFrames == 3

\* --------------------------------------------------------------- constants
Scale == 100
screen_width == 800 * Scale
screen_height == 600 * Scale
delete_zone_size == 100 * Scale
delete_zone_x == screen_width - delete_zone_size
delete_zone_y == 0
suction_range == 100 * Scale
DefaultRadius == 15 * Scale
None == 0

\* ------------------------------------------------------ float arithmetic
Abs(n) == IF n < 0 THEN -n ELSE n

Min(a, b) == IF a <= b THEN a ELSE b

Max(a, b) == IF a >= b THEN a ELSE b

\* n / d truncated toward zero (d > 0)
TruncDiv(n, d) == IF n >= 0 THEN n \div d ELSE -((-n) \div d)


\* math.sqrt(dx*dx + dy*dy).  Beyond DistCap on either axis the square does
\* not fit TLC's 32-bit integers; the larger leg is returned, which is then
\* a lower bound of the distance and above every threshold the code compares
\* a distance with (suction_range, radius + 10, radius + radius).
DistCap == 2 * suction_range

\* One step of the bitwise square root: every root r of the set S with the
\* bit b added if the square still fits under n.  (The root travels as the
\* element of a set so that it is a value, not an expression evaluated anew
\* at each use.)
SqrtBit(S, n, b) == {IF (r + b) * (r + b) <= n THEN r + b ELSE r : r \in S}

SqrtBits(n) ==
    SqrtBit(SqrtBit(SqrtBit(SqrtBit(SqrtBit(SqrtBit(SqrtBit(SqrtBit(
    SqrtBit(SqrtBit(SqrtBit(SqrtBit(SqrtBit(SqrtBit(SqrtBit({0},
        n, 16384), n, 8192), n, 4096), n, 2048), n, 1024), n, 512),
        n, 256), n, 128), n, 64), n, 32), n, 16), n, 8), n, 4), n, 2), n, 1)

\* floor of the square root of n, for 0 <= n < 2^30
ISqrt(n) == CHOOSE r \in UNION {SqrtBits(m) : m \in {n}} : TRUE

Distance(dx, dy) ==
    IF Abs(dx) > DistCap \/ Abs(dy) > DistCap
    THEN Max(Abs(dx), Abs(dy))
    ELSE ISqrt(dx * dx + dy * dy)

\* ------------------------------------------------------------------- Ball
NewBall(id, x, y, color, velocity) ==
    [id |-> id, x |-> x, y |-> y, radius |-> DefaultRadius,
     color |-> color, vx |-> velocity[1], vy |-> velocity[2]]

\* velocity component after friction 0.98
Friction(v) == TruncDiv(v * 98, 100)

\* a perfectly elastic bounce, the factor 0.8 left out
Bounce_Elastic(v) == Abs(v)

\* velocity component after a bounce, 0.8 of its magnitude
Bounce(v) == TruncDiv(Abs(v) * 8, 10)

\* Ball.update whose second test compares the centre, not the edge, with the
\* limit
AxisUpdate_CentreAtLimit(p, v, radius, limit) ==
    LET v1 == Friction(v)
        p1 == p + v1
    IN  IF p1 - radius < 0 THEN <<radius, Bounce(v1)>>
        ELSE IF p1 > limit THEN <<limit - radius, -Bounce(v1)>>
        ELSE <<p1, v1>>

\* Ball.update on one axis: <<position, velocity>> after the step
AxisUpdate(p, v, radius, limit) ==
    LET v1 == Friction(v)
        p1 == p + v1
    IN  IF p1 - radius < 0 THEN <<radius, Bounce(v1)>>
        ELSE IF p1 + radius > limit THEN <<limit - radius, -Bounce(v1)>>
        ELSE <<p1, v1>>

BallUpdate(b) ==
    LET ax == AxisUpdate(b.x, b.vx, b.radius, screen_width)
        ay == AxisUpdate(b.y, b.vy, b.radius, screen_height)
    IN  [b EXCEPT !.x = ax[1], !.vx = ax[2], !.y = ay[1], !.vy = ay[2]]

\* math.sqrt(dx*dx + dy*dy) <= limit.  The comparison is decided on the
\* squares: the truncated root of Distance alone would let a distance between
\* limit and limit + 1/Scale pass.  (A strict comparison distance < limit is
\* exact on the truncated root.)
DistanceLE(dx, dy, limit) ==
    /\ Abs(dx) <= limit
    /\ Abs(dy) <= limit
    /\ dx * dx + dy * dy <= limit * limit

distance_to(b1, b2) == Distance(b1.x - b2.x, b1.y - b2.y)

\* is_colliding with a strict comparison: tangent balls do not collide
is_colliding_Strict(b1, b2) ==
    /\ DistanceLE(b1.x - b2.x, b1.y - b2.y, b1.radius + b2.radius)
    /\ Distance(b1.x - b2.x, b1.y - b2.y) < b1.radius + b2.radius

is_colliding(b1, b2) ==
    DistanceLE(b1.x - b2.x, b1.y - b2.y, b1.radius + b2.radius)

is_point_inside(b, x, y) ==
    LET dx == x - b.x
        dy == y - b.y
    IN  /\ Abs(dx) <= b.radius
        /\ Abs(dy) <= b.radius
        /\ dx * dx + dy * dy <= b.radius * b.radius

\* ----------------------------------------------------------- colour mixing
\* The pairs (c1, c2) of channel values for which the double-precision value
\* of c1*0.6 + c2*0.4 lies just below the exact (integer) value, so that
\* int() yields one less than the exact floor.
FloatShort == {
    <<6,1>>, <<12,2>>, <<24,4>>, <<31,1>>, <<36,1>>, <<41,1>>, <<46,1>>, <<48,3>>,
    <<48,8>>, <<51,1>>, <<57,2>>, <<57,7>>, <<62,2>>, <<62,7>>, <<67,2>>, <<67,7>>,
    <<72,2>>, <<72,7>>, <<77,2>>, <<77,7>>, <<82,2>>, <<82,7>>, <<87,2>>, <<87,7>>,
    <<92,2>>, <<92,7>>, <<96,1>>, <<96,6>>, <<96,11>>, <<96,16>>, <<97,2>>, <<97,7>>,
    <<101,1>>, <<101,6>>, <<102,2>>, <<102,7>>, <<106,1>>, <<109,4>>, <<109,9>>, <<109,14>>,
    <<109,19>>, <<114,4>>, <<114,9>>, <<114,14>>, <<114,19>>, <<119,4>>, <<119,9>>, <<119,14>>,
    <<119,19>>, <<124,4>>, <<124,9>>, <<124,14>>, <<124,19>>, <<129,4>>, <<129,9>>, <<129,14>>,
    <<129,19>>, <<134,4>>, <<134,9>>, <<134,14>>, <<134,19>>, <<139,4>>, <<139,9>>, <<139,14>>,
    <<139,19>>, <<144,4>>, <<144,9>>, <<144,14>>, <<144,19>>, <<149,4>>, <<149,9>>, <<149,14>>,
    <<149,19>>, <<154,4>>, <<154,9>>, <<154,14>>, <<154,19>>, <<159,4>>, <<159,9>>, <<159,14>>,
    <<159,19>>, <<164,4>>, <<164,9>>, <<164,14>>, <<164,19>>, <<169,4>>, <<169,9>>, <<169,14>>,
    <<169,19>>, <<174,4>>, <<174,9>>, <<174,14>>, <<174,19>>, <<179,4>>, <<179,9>>, <<179,14>>,
    <<179,19>>, <<184,4>>, <<184,9>>, <<184,14>>, <<184,19>>, <<189,4>>, <<189,9>>, <<189,14>>,
    <<189,19>>, <<192,2>>, <<192,7>>, <<192,12>>, <<192,17>>, <<192,22>>, <<192,27>>, <<192,32>>,
    <<194,4>>, <<194,9>>, <<194,14>>, <<194,19>>, <<197,2>>, <<197,7>>, <<197,12>>, <<197,17>>,
    <<197,22>>, <<199,4>>, <<199,9>>, <<199,14>>, <<199,19>>, <<202,2>>, <<202,7>>, <<202,12>>,
    <<202,17>>, <<204,4>>, <<204,9>>, <<204,14>>, <<207,2>>, <<207,7>>, <<209,4>>, <<212,2>>,
    <<218,3>>, <<218,8>>, <<218,13>>, <<218,18>>, <<218,23>>, <<218,28>>, <<218,33>>, <<218,38>>,
    <<218,43>>, <<223,3>>, <<223,8>>, <<223,13>>, <<223,18>>, <<223,23>>, <<223,28>>, <<223,33>>,
    <<223,38>>, <<223,43>>, <<228,3>>, <<228,8>>, <<228,13>>, <<228,18>>, <<228,23>>, <<228,28>>,
    <<228,33>>, <<228,38>>, <<228,43>>, <<233,3>>, <<233,8>>, <<233,13>>, <<233,18>>, <<233,23>>,
    <<233,28>>, <<233,33>>, <<233,38>>, <<233,43>>, <<238,3>>, <<238,8>>, <<238,13>>, <<238,18>>,
    <<238,23>>, <<238,28>>, <<238,33>>, <<238,38>>, <<238,43>>, <<243,3>>, <<243,8>>, <<243,13>>,
    <<243,18>>, <<243,23>>, <<243,28>>, <<243,33>>, <<243,38>>, <<243,43>>, <<248,3>>, <<248,8>>,
    <<248,13>>, <<248,18>>, <<248,23>>, <<248,28>>, <<248,33>>, <<248,38>>, <<248,43>>, <<253,3>>,
    <<253,8>>, <<253,13>>, <<253,18>>, <<253,23>>, <<253,28>>, <<253,33>>, <<253,38>>, <<253,43>>
    }

MixChannel(c1, c2) ==
    LET exact == (6 * c1 + 4 * c2) \div 10
        f == IF <<c1, c2>> \in FloatShort THEN exact - 1 ELSE exact
    IN  f % 255

\* the darkening without its floor of 50
Darken_NoFloor(c) == c - 50

Darken(c) == Max(50, c - 50)

\* _mix_colors whose fallback branch darkens g and b and keeps r
MixColors_FallbackKeepsRed(c1, c2) ==
    LET mixed_r == MixChannel(c1[1], c2[1])
        mixed_g == MixChannel(c1[2], c2[2])
        mixed_b == MixChannel(c1[3], c2[3])
    IN  IF mixed_r + mixed_g + mixed_b > 3 * 200
        THEN IF mixed_r > mixed_g /\ mixed_r > mixed_b
             THEN <<mixed_r, Darken(mixed_g), Darken(mixed_b)>>
             ELSE IF mixed_g > mixed_r /\ mixed_g > mixed_b
             THEN <<Darken(mixed_r), mixed_g, Darken(mixed_b)>>
             ELSE <<mixed_r, Darken(mixed_g), Darken(mixed_b)>>
        ELSE <<mixed_r, mixed_g, mixed_b>>

MixColors(c1, c2) ==
    LET mixed_r == MixChannel(c1[1], c2[1])
        mixed_g == MixChannel(c1[2], c2[2])
        mixed_b == MixChannel(c1[3], c2[3])
    IN  IF mixed_r + mixed_g + mixed_b > 3 * 200
        THEN IF mixed_r > mixed_g /\ mixed_r > mixed_b
             THEN <<mixed_r, Darken(mixed_g), Darken(mixed_b)>>
             ELSE IF mixed_g > mixed_r /\ mixed_g > mixed_b
             THEN <<Darken(mixed_r), mixed_g, Darken(mixed_b)>>
             ELSE <<Darken(mixed_r), Darken(mixed_g), mixed_b>>
        ELSE <<mixed_r, mixed_g, mixed_b>>

\* ------------------------------------------------------------- GameLogic
VARIABLES
    balls,              \* self.balls: sequence of Ball records
    inventory,          \* self.inventory: sequence of Ball records
    suction_active,     \* self.suction_active
    suction_mouse_pos,  \* self.suction_mouse_pos
    nextId,             \* identity of the next Ball object to be constructed
    deleted,            \* identities of the balls removed by _check_delete_zone
    entered,            \* identities appended to inventory, in order of the appends
    op,                 \* the last call made on GameLogic and its arguments
    ret,                \* what that call returned (a ball identity or None)
    frames              \* number of update() calls so far

vars == <<balls, inventory, suction_active, suction_mouse_pos, nextId,
          deleted, entered, op, ret, frames>>

Ids(s) == {s[i].id : i \in 1..Len(s)}

Call(name, x, y, v) == [name |-> name, x |-> x, y |-> y, v |-> v]

\* _mix_colors applied to the balls at indices i and j of bs
MixPair(bs, i, j) ==
    LET c == MixColors(bs[i].color, bs[j].color)
    IN  [bs EXCEPT ![i].color = c, ![j].color = c]

\* the double loop of _handle_collisions from the pair (i, j) on
RECURSIVE CollideFrom(_, _, _)
CollideFrom(bs, i, j) ==
    IF i >= Len(bs) THEN bs
    ELSE IF j > Len(bs) THEN CollideFrom(bs, i + 1, i + 2)
    ELSE CollideFrom(IF is_colliding(bs[i], bs[j]) THEN MixPair(bs, i, j) ELSE bs,
                     i, j + 1)

HandleCollisions(bs) == CollideFrom(bs, 1, 2)

\* distance of a ball to the suction focus
FocusDistance(b, focus) == Distance(b.x - focus[1], b.y - focus[2])

\* pull_strength for a ball at the given distance (<= suction_range)
PullStrength(distance) ==
    Min(TruncDiv((suction_range - distance) * 5 * Scale, suction_range), 10 * Scale)

\* dir * pull_strength * 0.3 on one axis, d = ball coordinate - mouse coordinate
Impulse(d, distance) ==
    IF distance > 0
    THEN TruncDiv(d * PullStrength(distance) * 3, distance * 10)
    ELSE 0

\* the velocity change _process_suction makes to one ball
SuctionPull(b, focus) ==
    LET dx == b.x - focus[1]
        dy == b.y - focus[2]
        distance == FocusDistance(b, focus)
    IN  IF DistanceLE(dx, dy, suction_range)
        THEN [b EXCEPT !.vx = b.vx + Impulse(dx, distance),
                       !.vy = b.vy + Impulse(dy, distance)]
        ELSE b

\* the capture test with <= in place of <
Captured_Inclusive(b, focus) ==
    /\ DistanceLE(b.x - focus[1], b.y - focus[2], suction_range)
    /\ DistanceLE(b.x - focus[1], b.y - focus[2], b.radius + 10 * Scale)

\* the ball is appended to inventory and to balls_to_remove
Captured(b, focus) ==
    LET distance == FocusDistance(b, focus)
    IN  /\ DistanceLE(b.x - focus[1], b.y - focus[2], suction_range)
        /\ distance < b.radius + 10 * Scale

\* _process_suction that removes the captured balls but never appends them
ProcessSuction_DropsCaptured(bs, inv, focus) ==
    LET pulled == [i \in 1..Len(bs) |-> SuctionPull(bs[i], focus)]
        Left(b) == ~Captured(b, focus)
    IN  [balls |-> SelectSeq(pulled, Left),
         inventory |-> inv,
         appended |-> <<>>]

\* _process_suction that puts the captured balls in front of the inventory,
\* the last captured first
ProcessSuction_PrependsCaptured(bs, inv, focus) ==
    LET pulled == [i \in 1..Len(bs) |-> SuctionPull(bs[i], focus)]
        Taken(b) == Captured(b, focus)
        Left(b) == ~Captured(b, focus)
        taken == SelectSeq(pulled, Taken)
        reversed == [i \in 1..Len(taken) |-> taken[Len(taken) + 1 - i]]
    IN  [balls |-> SelectSeq(pulled, Left),
         inventory |-> reversed \o inv,
         appended |-> taken]

\* _process_suction without the removal loop of lines 261-263
ProcessSuction_KeepsCaptured(bs, inv, focus) ==
    LET pulled == [i \in 1..Len(bs) |-> SuctionPull(bs[i], focus)]
        Taken(b) == Captured(b, focus)
    IN  [balls |-> pulled,
         inventory |-> inv \o SelectSeq(pulled, Taken),
         appended |-> SelectSeq(pulled, Taken)]

\* _process_suction: the lists balls and inventory after it, and the appends
ProcessSuction(bs, inv, focus) ==
    LET pulled == [i \in 1..Len(bs) |-> SuctionPull(bs[i], focus)]
        Taken(b) == Captured(b, focus)
        Left(b) == ~Captured(b, focus)
    IN  [balls |-> SelectSeq(pulled, Left),
         inventory |-> inv \o SelectSeq(pulled, Taken),
         appended |-> SelectSeq(pulled, Taken)]

\* the rectangle test with exclusive bounds
is_in_delete_zone_Strict(x, y) ==
    /\ delete_zone_x < x /\ x < screen_width
    /\ 0 < y /\ y < delete_zone_size

is_in_delete_zone(x, y) ==
    /\ delete_zone_x <= x /\ x <= screen_width
    /\ 0 <= y /\ y <= delete_zone_size

\* _check_delete_zone: the balls that stay
CheckDeleteZone(bs) ==
    LET Stays(b) == ~is_in_delete_zone(b.x, b.y)
    IN  SelectSeq(bs, Stays)

\* update() whose delete-zone check also sweeps the inventory
GameUpdate_SweepsInventory(bs, inv, active, focus) ==
    LET moved == [i \in 1..Len(bs) |-> BallUpdate(bs[i])]
        collided == HandleCollisions(moved)
        sucked == IF active
                  THEN ProcessSuction(collided, inv, focus)
                  ELSE [balls |-> collided, inventory |-> inv, appended |-> <<>>]
    IN  CHOOSE g \in {[balls |-> CheckDeleteZone(s.balls),
                       inventory |-> CheckDeleteZone(s.inventory),
                       appended |-> s.appended,
                       removed |-> Ids(s.balls) \ Ids(CheckDeleteZone(s.balls))]
                      : s \in {sucked}} : TRUE

\* GameLogic.update on the two lists: the lists after it, the balls the
\* suction appended to inventory and the identities the delete zone removed
GameUpdate(bs, inv, active, focus) ==
    LET moved == [i \in 1..Len(bs) |-> BallUpdate(bs[i])]
        collided == HandleCollisions(moved)
        sucked == IF active
                  THEN ProcessSuction(collided, inv, focus)
                  ELSE [balls |-> collided, inventory |-> inv, appended |-> <<>>]
    IN  CHOOSE g \in {[balls |-> CheckDeleteZone(s.balls),
                       inventory |-> s.inventory,
                       appended |-> s.appended,
                       removed |-> Ids(s.balls) \ Ids(CheckDeleteZone(s.balls))]
                      : s \in {sucked}} : TRUE

\* ------------------------------------------------------------------ inputs
Pt(x, y) == <<x * Scale, y * Scale>>

Vel(vx, vy) == <<vx * Scale, vy * Scale>>

\* arguments of add_ball (space bar at the mouse position) with the colour
\* and the velocity Ball.__init__ samples (speed in [1, 3])
AddInputs ==
    {[pos |-> Pt(799, 1), color |-> <<250, 250, 250>>, velocity |-> Vel(-2, 0)],
     [pos |-> Pt(400, 300), color |-> <<200, 200, 200>>, velocity |-> Vel(0, 1)]}

\* arguments of start_suction
FocusPoints == {Pt(400, 300), Pt(799, 1)}

\* arguments of eject_ball; the velocity is the argument, or the one
\* eject_ball samples (speed in [2, 5]) when none is given
EjectInputs ==
    {[pos |-> Pt(450, 300), velocity |-> Vel(0, 0)],
     [pos |-> Pt(700, 100), velocity |-> Vel(0, 0)],
     [pos |-> Pt(799, 1), velocity |-> Vel(-120, 0)]}

\* ----------------------------------------------------------------- actions
Init ==
    /\ balls = <<>>
    /\ inventory = <<>>
    /\ suction_active = FALSE
    /\ suction_mouse_pos = <<0, 0>>
    /\ nextId = 1
    /\ deleted = {}
    /\ entered = <<>>
    /\ op = Call("init", 0, 0, <<0, 0>>)
    /\ ret = None
    /\ frames = 0

AddBall(x, y, color, velocity) ==
    /\ nextId <= MaxBalls
    /\ balls' = Append(balls, NewBall(nextId, x, y, color, velocity))
    /\ nextId' = nextId + 1
    /\ op' = Call("add_ball", x, y, velocity)
    /\ ret' = nextId
    /\ UNCHANGED <<inventory, suction_active, suction_mouse_pos, deleted,
                   entered, frames>>

\* update() itself; frames is counted by the caller
UpdateBody ==
    /\ \E g \in {GameUpdate(balls, inventory, suction_active, suction_mouse_pos)} :
           /\ balls' = g.balls
           /\ inventory' = g.inventory
           /\ deleted' = deleted \cup g.removed
           /\ entered' = entered \o [i \in 1..Len(g.appended) |-> g.appended[i].id]
    /\ op' = Call("update", 0, 0, <<0, 0>>)
    /\ ret' = None
    /\ UNCHANGED <<suction_active, suction_mouse_pos, nextId>>

Update ==
    /\ frames < MaxFrames
    /\ UpdateBody
    /\ frames' = frames + 1

\* start_suction that toggles the flag instead of setting it
StartSuction_Toggles(mouse_x, mouse_y) ==
    /\ suction_active' = ~suction_active
    /\ suction_mouse_pos' = <<mouse_x, mouse_y>>
    /\ op' = Call("start_suction", mouse_x, mouse_y, <<0, 0>>)
    /\ ret' = None
    /\ UNCHANGED <<balls, inventory, nextId, deleted, entered, frames>>

StartSuction(mouse_x, mouse_y) ==
    /\ suction_active' = TRUE
    /\ suction_mouse_pos' = <<mouse_x, mouse_y>>
    /\ op' = Call("start_suction", mouse_x, mouse_y, <<0, 0>>)
    /\ ret' = None
    /\ UNCHANGED <<balls, inventory, nextId, deleted, entered, frames>>

StopSuction ==
    /\ suction_active' = FALSE
    /\ op' = Call("stop_suction", 0, 0, <<0, 0>>)
    /\ ret' = None
    /\ UNCHANGED <<balls, inventory, suction_mouse_pos, nextId, deleted,
                   entered, frames>>

\* eject_ball popping the oldest element, pop(0)
PopIndex_First(inv) == 1

\* index of the inventory element eject_ball pops
PopIndex(inv) == Len(inv)

\* eject_ball reading inventory[-1] without popping it
PopRest_KeepsAll(inv) == inv

\* inventory after the pop
PopRest(inv) == [i \in 1..(Len(inv) - 1) |-> IF i < PopIndex(inv) THEN inv[i] ELSE inv[i + 1]]

\* eject_ball that forgets to assign the velocity argument
Ejected_KeepsVelocity(b, mouse_x, mouse_y, velocity) ==
    [b EXCEPT !.x = mouse_x, !.y = mouse_y]

\* the popped ball as eject_ball puts it back on the screen
Ejected(b, mouse_x, mouse_y, velocity) ==
    [b EXCEPT !.x = mouse_x, !.y = mouse_y,
              !.vx = velocity[1], !.vy = velocity[2]]

\* eject_ball that puts the ball in front of balls instead of at its end
EjectBall_InFront(mouse_x, mouse_y, velocity) ==
    /\ op' = Call("eject_ball", mouse_x, mouse_y, velocity)
    /\ IF inventory = <<>>
       THEN /\ ret' = None
            /\ UNCHANGED <<balls, inventory>>
       ELSE LET ball == Ejected(inventory[PopIndex(inventory)],
                                mouse_x, mouse_y, velocity)
            IN  /\ inventory' = PopRest(inventory)
                /\ balls' = <<ball>> \o balls
                /\ ret' = ball.id
    /\ UNCHANGED <<suction_active, suction_mouse_pos, nextId, deleted,
                   entered, frames>>

\* eject_ball whose emptiness test looks at self.balls: with an empty
\* inventory and a ball on the screen, pop() raises IndexError (ret = -1)
EjectBall_ChecksBalls(mouse_x, mouse_y, velocity) ==
    /\ op' = Call("eject_ball", mouse_x, mouse_y, velocity)
    /\ IF balls = <<>>
       THEN /\ ret' = None
            /\ UNCHANGED <<balls, inventory, suction_active>>
       ELSE IF inventory = <<>>
       THEN /\ ret' = -1
            /\ suction_active' = suction_active
            /\ UNCHANGED <<balls, inventory>>
       ELSE LET ball == Ejected(inventory[PopIndex(inventory)],
                                mouse_x, mouse_y, velocity)
            IN  /\ inventory' = PopRest(inventory)
                /\ balls' = Append(balls, ball)
                /\ ret' = ball.id
                /\ suction_active' = suction_active
    /\ UNCHANGED <<suction_mouse_pos, nextId, deleted, entered, frames>>

EjectBall(mouse_x, mouse_y, velocity) ==
    /\ op' = Call("eject_ball", mouse_x, mouse_y, velocity)
    /\ IF inventory = <<>>
       THEN /\ ret' = None
            /\ UNCHANGED <<balls, inventory>>
       ELSE LET ball == Ejected(inventory[PopIndex(inventory)],
                                mouse_x, mouse_y, velocity)
            IN  /\ inventory' = PopRest(inventory)
                /\ balls' = Append(balls, ball)
                /\ ret' = ball.id
    /\ UNCHANGED <<suction_active, suction_mouse_pos, nextId, deleted,
                   entered, frames>>

\* index of the first ball of bs from index i on that contains the point
\* (x, y), 0 when there is none
RECURSIVE FirstInside(_, _, _, _)
FirstInside(bs, i, x, y) ==
    IF i > Len(bs) THEN 0
    ELSE IF is_point_inside(bs[i], x, y) THEN i
    ELSE FirstInside(bs, i + 1, x, y)

\* the loop run from the end of the list: the last ball that contains the point
RECURSIVE LastInside(_, _, _, _)
LastInside(bs, i, x, y) ==
    IF i < 1 THEN 0
    ELSE IF is_point_inside(bs[i], x, y) THEN i
    ELSE LastInside(bs, i - 1, x, y)

\* get_ball_at_position iterating over reversed(self.balls)
get_ball_at_position_Last(bs, x, y) ==
    IF LastInside(bs, Len(bs), x, y) = 0
    THEN None
    ELSE bs[LastInside(bs, Len(bs), x, y)].id

\* get_ball_at_position: the identity of the ball returned, or None
get_ball_at_position(bs, x, y) ==
    IF FirstInside(bs, 1, x, y) = 0
    THEN None
    ELSE bs[FirstInside(bs, 1, x, y)].id

\* arguments of get_ball_at_position
QueryPoints == {Pt(400, 300), Pt(415, 300)}

GetBallAt(x, y) ==
    /\ op' = Call("get_ball_at_position", x, y, <<0, 0>>)
    /\ ret' = get_ball_at_position(balls, x, y)
    /\ UNCHANGED <<balls, inventory, suction_active, suction_mouse_pos,
                   nextId, deleted, entered, frames>>

Next ==
    \/ \E q \in QueryPoints : GetBallAt(q[1], q[2])
    \/ \E a \in AddInputs : AddBall(a.pos[1], a.pos[2], a.color, a.velocity)
    \/ Update
    \/ \E p \in FocusPoints : StartSuction(p[1], p[2])
    \/ StopSuction
    \/ \E e \in EjectInputs : EjectBall(e.pos[1], e.pos[2], e.velocity)

Spec == Init /\ [][Next]_vars

\* ------------------------------------------- suction held at a fixed focus
\* The mouse button is held down at HoldFocus without moving (on_mouse_down,
\* then no further event) and the timer of GameWindow.update keeps calling
\* update(): root.after reschedules it after every frame.
HoldFocus == Pt(400, 300)

\* the one ball on the screen when the button goes down: where it is and
\* how it moves
HoldStarts ==
    {[pos |-> Pt(450, 300), velocity |-> Vel(0, 0)],
     [pos |-> Pt(420, 300), velocity |-> Vel(0, 0)],
     [pos |-> Pt(400, 340), velocity |-> Vel(2, 0)],
     [pos |-> Pt(340, 300), velocity |-> Vel(3, 0)]}

HoldInit ==
    /\ \E h \in HoldStarts :
         balls = <<NewBall(1, h.pos[1], h.pos[2], <<200, 200, 200>>, h.velocity)>>
    /\ inventory = <<>>
    /\ suction_active = TRUE
    /\ suction_mouse_pos = HoldFocus
    /\ nextId = 2
    /\ deleted = {}
    /\ entered = <<>>
    /\ op = Call("start_suction", HoldFocus[1], HoldFocus[2], <<0, 0>>)
    /\ ret = None
    /\ frames = 0

HoldUpdate ==
    /\ UpdateBody
    /\ UNCHANGED frames

HoldNext == HoldUpdate

SpecHold == HoldInit /\ [][HoldNext]_vars /\ WF_vars(HoldUpdate)

\* ------------------------------------------------------- one ball advancing
\* Ball.update called on a ball anywhere, also outside the screen (add_ball
\* and eject_ball take any position), moving at any velocity (eject_ball
\* takes any): positions and velocities in screen units
AdvanceXs == {-50, 16, 400, 785, 900}

AdvanceYs == {-50, 300, 650}

AdvanceVxs == {-120, -2, 0, 2}

AdvanceVys == {0, 120}

AdvanceInit ==
    /\ \E x \in AdvanceXs, y \in AdvanceYs, vx \in AdvanceVxs, vy \in AdvanceVys :
         balls = <<NewBall(1, x * Scale, y * Scale, <<200, 200, 200>>, Vel(vx, vy))>>
    /\ inventory = <<>>
    /\ suction_active = FALSE
    /\ suction_mouse_pos = <<0, 0>>
    /\ nextId = 2
    /\ deleted = {}
    /\ entered = <<>>
    /\ op = Call("init", 0, 0, <<0, 0>>)
    /\ ret = None
    /\ frames = 0

\* Ball.update called on every ball, as the first loop of update() does
Advance ==
    /\ balls' = [i \in 1..Len(balls) |-> BallUpdate(balls[i])]
    /\ op' = Call("Ball.update", 0, 0, <<0, 0>>)
    /\ ret' = None
    /\ UNCHANGED <<inventory, suction_active, suction_mouse_pos, nextId,
                   deleted, entered, frames>>

AdvanceNext ==
    \/ Advance
    \/ HoldUpdate

SpecAdvance == AdvanceInit /\ [][AdvanceNext]_vars

\* ------------------------------------------------------- two balls colliding
\* Two balls at rest, the second at an offset from the first: on top of it,
\* tangent along an axis and along the diagonal (18, 24), a hundredth of a
\* unit beyond tangency, and far away.  Offsets in 1/Scale units.
MixOffsets ==
    {<<0, 0>>, <<30 * Scale, 0>>, <<18 * Scale, 24 * Scale>>,
     <<30 * Scale, 5>>, <<100 * Scale, 0>>}

\* the colours the two balls are created with
ColorSamples ==
    {<<250, 250, 250>>, <<200, 200, 200>>, <<100, 100, 100>>,
     <<255, 255, 255>>, <<0, 0, 0>>, <<254, 253, 94>>, <<6, 255, 1>>}

MixInit ==
    /\ \E d \in MixOffsets, c1 \in ColorSamples, c2 \in ColorSamples :
         balls = <<NewBall(1, 400 * Scale, 300 * Scale, c1, <<0, 0>>),
                   NewBall(2, 400 * Scale + d[1], 300 * Scale + d[2], c2, <<0, 0>>)>>
    /\ inventory = <<>>
    /\ suction_active = FALSE
    /\ suction_mouse_pos = <<0, 0>>
    /\ nextId = 3
    /\ deleted = {}
    /\ entered = <<>>
    /\ op = Call("init", 0, 0, <<0, 0>>)
    /\ ret = None
    /\ frames = 0

\* _mix_colors(ball1, ball2) called on the two balls
MixCall ==
    /\ Len(balls) = 2
    /\ balls' = MixPair(balls, 1, 2)
    /\ op' = Call("_mix_colors", 0, 0, <<0, 0>>)
    /\ ret' = None
    /\ UNCHANGED <<inventory, suction_active, suction_mouse_pos, nextId,
                   deleted, entered, frames>>

MixNext ==
    \/ MixCall
    \/ HoldUpdate

SpecMix == MixInit /\ [][MixNext]_vars

\* ------------------------------------------------ one ball near the focus
\* One ball and the focus at HoldFocus, the button down or up.  The ball
\* starts at an offset from the focus (in 1/Scale units): on it, at exactly
\* radius + 10 = 25 along an axis and along the diagonal (15, 20), a
\* hundredth of a unit inside and outside of that, and farther away.
CaptureStarts ==
    {[off |-> <<0, 0>>, velocity |-> Vel(0, 0)],
     [off |-> <<25 * Scale, 0>>, velocity |-> Vel(0, 0)],
     [off |-> <<15 * Scale, 20 * Scale>>, velocity |-> Vel(0, 0)],
     [off |-> <<25 * Scale - 1, 0>>, velocity |-> Vel(0, 0)],
     [off |-> <<25 * Scale + 1, 0>>, velocity |-> Vel(0, 0)],
     [off |-> <<50 * Scale, 0>>, velocity |-> Vel(0, 0)],
     [off |-> <<20 * Scale, 0>>, velocity |-> Vel(2, 0)],
     [off |-> <<0, 110 * Scale>>, velocity |-> Vel(0, -3)]}

CaptureInit ==
    /\ \E h \in CaptureStarts :
         balls = <<NewBall(1, HoldFocus[1] + h.off[1], HoldFocus[2] + h.off[2],
                           <<200, 200, 200>>, h.velocity)>>
    /\ inventory = <<>>
    /\ suction_active \in BOOLEAN
    /\ suction_mouse_pos = HoldFocus
    /\ nextId = 2
    /\ deleted = {}
    /\ entered = <<>>
    /\ op = Call("init", 0, 0, <<0, 0>>)
    /\ ret = None
    /\ frames = 0

CaptureNext == HoldUpdate

SpecCapture == CaptureInit /\ [][CaptureNext]_vars

\* ------------------------------------------- eject at the suction focus
\* The right click ejects at the mouse position while the left button holds
\* the suction there.  The focus is in the middle of the screen or in the
\* corner of the delete zone; the velocities have speed 3, speed exactly 5
\* and, for contrast, speed 120.
RecaptureAdds ==
    {[pos |-> Pt(400, 300), color |-> <<200, 200, 200>>, velocity |-> Vel(0, 1)]}

RecaptureEjects ==
    {[pos |-> Pt(400, 300), velocity |-> Vel(3, 0)],
     [pos |-> Pt(400, 300), velocity |-> Vel(-4, 3)],
     [pos |-> Pt(799, 1), velocity |-> Vel(3, 0)],
     [pos |-> Pt(400, 300), velocity |-> Vel(-120, 0)]}

RecaptureNext ==
    \/ \E a \in RecaptureAdds : AddBall(a.pos[1], a.pos[2], a.color, a.velocity)
    \/ Update
    \/ \E p \in FocusPoints : StartSuction(p[1], p[2])
    \/ \E e \in RecaptureEjects : EjectBall(e.pos[1], e.pos[2], e.velocity)

SpecRecapture == Init /\ [][RecaptureNext]_vars

\* ================================================================= claims
Total == Len(balls) + Len(inventory)

NoDuplicates(s) == Cardinality(Ids(s)) = Len(s)

Created == 1..(nextId - 1)

IsPrefix(s, t) == Len(s) <= Len(t) /\ SubSeq(t, 1, Len(s)) = s

\* C1: no ball is in both balls and inventory, no ball appears twice in
\* either list, and every ball that was created and not removed by the
\* delete zone is in exactly one of the two lists.
C1_Ownership ==
    /\ Ids(balls) \cap Ids(inventory) = {}
    /\ NoDuplicates(balls)
    /\ NoDuplicates(inventory)
    /\ Ids(balls) \cup Ids(inventory) = Created \ deleted

\* a ball in inventory, a ball on the screen put back by eject_ball, after
\* some ball went through a suction transfer
C1_Witness ==
    /\ inventory # <<>>
    /\ balls # <<>>
    /\ op.name = "eject_ball"
    /\ ret # None

\* C2: len(balls) + len(inventory) decreases only in update(), and then by
\* exactly the number of balls the delete-zone check removed; the suction
\* transfer moves each captured ball from balls to inventory once and leaves
\* the sum alone; start_suction and stop_suction leave the sum unchanged.
C2_Accounting ==
    [][/\ Total' < Total => op'.name = "update"
       /\ op'.name = "update" =>
            /\ Total' = Total - Cardinality(deleted' \ deleted)
            /\ Ids(inventory') \ Ids(inventory) \subseteq Ids(balls) \ Ids(balls')
            /\ Len(inventory') - Len(inventory)
                 = Cardinality(Ids(inventory') \ Ids(inventory))
       /\ op'.name \in {"start_suction", "stop_suction"} =>
            /\ Total' = Total
            /\ balls' = balls
            /\ inventory' = inventory]_vars

\* an update() has captured one ball and the delete zone has removed another
C2_Witness ==
    /\ op.name = "update"
    /\ entered # <<>>
    /\ deleted # {}

\* C3 as stated: add_ball and eject_ball each increase
\* len(balls) + len(inventory) by exactly 1.
C3_Original ==
    [][op'.name \in {"add_ball", "eject_ball"} => Total' = Total + 1]_vars

\* C3 amended: add_ball increases len(balls) + len(inventory) by exactly 1;
\* eject_ball leaves the sum unchanged: with a non-empty inventory it moves
\* one ball from inventory to balls, with an empty one it changes neither.
C3_AddEject ==
    [][/\ op'.name = "add_ball" =>
            /\ Total' = Total + 1
            /\ Len(balls') = Len(balls) + 1
            /\ inventory' = inventory
       /\ op'.name = "eject_ball" =>
            /\ Total' = Total
            /\ inventory # <<>> =>
                 /\ Len(balls') = Len(balls) + 1
                 /\ Len(inventory') = Len(inventory) - 1
            /\ inventory = <<>> =>
                 /\ Len(balls') = Len(balls)
                 /\ Len(inventory') = 0]_vars

\* eject_ball has put a ball back on the screen
C3_Witness ==
    /\ op.name = "eject_ball"
    /\ ret # None
    /\ ret \in Ids(balls)

\* C4: eject_ball with an empty inventory returns None and changes nothing:
\* not the lists, not any ball, not the suction state or focus; no exception.
C4_EjectEmpty ==
    [][op'.name = "eject_ball" /\ inventory = <<>> =>
         /\ ret' = None
         /\ balls' = balls
         /\ inventory' = inventory
         /\ suction_active' = suction_active
         /\ suction_mouse_pos' = suction_mouse_pos
         /\ deleted' = deleted
         /\ nextId' = nextId]_vars

\* eject_ball has returned None while balls were on the screen and suction
\* was active
C4_Witness ==
    /\ op.name = "eject_ball"
    /\ ret = None
    /\ inventory = <<>>
    /\ balls # <<>>
    /\ suction_active

\* index in entered of the latest append of ball id to inventory
LastEntry(id) ==
    LET idx == {i \in 1..Len(entered) : entered[i] = id}
    IN  CHOOSE i \in idx : \A j \in idx : j <= i

BallOf(s, id) == CHOOSE b \in {s[i] : i \in 1..Len(s)} : b.id = id

\* C5: the inventory is a stack.  eject_ball with a non-empty inventory
\* returns the ball that entered the inventory most recently among those in
\* it and removes that ball only; the inventory is always ordered by time of
\* entry, so that of A transferred before B, B is ejected first and A next.
C5_Lifo ==
    /\ [](\A i, j \in 1..Len(inventory) :
            i < j => LastEntry(inventory[i].id) < LastEntry(inventory[j].id))
    /\ [][op'.name = "eject_ball" /\ inventory # <<>> =>
            /\ ret' \in Ids(inventory)
            /\ \A id \in Ids(inventory) : LastEntry(id) <= LastEntry(ret')
            /\ Ids(inventory') = Ids(inventory) \ {ret'}]_vars

\* two balls were transferred, the later one has been ejected and the
\* earlier one is still in the inventory
C5_Witness ==
    /\ op.name = "eject_ball"
    /\ ret # None
    /\ Len(entered) >= 2
    /\ inventory # <<>>
    /\ LastEntry(inventory[Len(inventory)].id) < LastEntry(ret)

\* C6: eject_ball(x, y, v) with a non-empty inventory removes exactly one
\* ball from inventory, sets its position to (x, y) and its velocity to v,
\* appends it as the last element of balls and returns it; its radius and
\* colour, the other balls, the order of the remaining inventory and of the
\* balls already on the screen, and the suction state are unchanged.
C6_EjectEffect ==
    [][op'.name = "eject_ball" /\ inventory # <<>> =>
         /\ ret' \in Ids(inventory)
         /\ LET old == BallOf(inventory, ret')
                Others(b) == b.id # ret'
            IN  /\ inventory' = SelectSeq(inventory, Others)
                /\ Len(inventory') = Len(inventory) - 1
                /\ balls' = Append(balls,
                                   [id |-> ret', x |-> op'.x, y |-> op'.y,
                                    vx |-> op'.v[1], vy |-> op'.v[2],
                                    radius |-> old.radius, color |-> old.color])
         /\ suction_active' = suction_active
         /\ suction_mouse_pos' = suction_mouse_pos]_vars

\* a ball was ejected with a velocity other than the one it had, next to a
\* ball that was already on the screen
C6_Witness ==
    /\ op.name = "eject_ball"
    /\ ret # None
    /\ Len(balls) = 2
    /\ balls[2].id = ret
    /\ <<balls[2].x, balls[2].y>> = <<op.x, op.y>>
    /\ <<balls[2].vx, balls[2].vy>> = op.v

\* the delete-zone rectangle of the claim: x in [width-100, width], y in [0, 100]
InZone(b) ==
    /\ screen_width - 100 * Scale <= b.x /\ b.x <= screen_width
    /\ 0 <= b.y /\ b.y <= 100 * Scale

AtCorner(b) == b.x = screen_width - 1 * Scale /\ b.y = 1 * Scale

\* when update() returns no ball on the screen has its centre in the zone
C7_ZoneEmpty ==
    op.name = "update" => \A i \in 1..Len(balls) : ~InZone(balls[i])

\* a ball removed by the delete zone is in neither list, now and later
C7_Gone ==
    /\ [](deleted \cap (Ids(balls) \cup Ids(inventory)) = {})
    /\ [][deleted \subseteq deleted']_vars

\* C7 as stated: after update() no ball on the screen is inside the delete
\* zone, a removed ball never comes back, and a ball whose centre is at
\* (width-1, 1) is off the screen after the next update().
C7_Original ==
    /\ []C7_ZoneEmpty
    /\ C7_Gone
    /\ [][op'.name = "update" =>
            \A i \in 1..Len(balls) :
                AtCorner(balls[i]) => balls[i].id \notin Ids(balls')]_vars

\* C7 amended: as stated, but the ball at (width-1, 1) is off the screen
\* after the next update() provided neither component of its velocity
\* exceeds 100 in magnitude (every velocity add_ball or a default eject_ball
\* gives a ball does so); a faster ball is moved out of the zone by the
\* advance step before the zone is checked.
C7_DeleteZone ==
    /\ []C7_ZoneEmpty
    /\ C7_Gone
    /\ [][op'.name = "update" =>
            \A i \in 1..Len(balls) :
                (/\ AtCorner(balls[i])
                 /\ Abs(balls[i].vx) <= 100 * Scale
                 /\ Abs(balls[i].vy) <= 100 * Scale)
                => balls[i].id \notin Ids(balls')]_vars

\* the first update() has removed a ball through the delete zone (the ball
\* add_ball put at (width-1, 1)), or a ball ejected onto the edge (width-100,
\* 100) of the zone was removed
C7_Witness ==
    /\ op.name = "update"
    /\ deleted # {}
    /\ frames = 1
    /\ inventory = <<>>

\* C8: suction runs before the delete-zone check.  update() never removes a
\* ball from inventory (the inventory before is a prefix of the one after),
\* a ball captured in an update() is in inventory when it returns, also with
\* its centre inside the delete zone, and is not counted as deleted; only
\* eject_ball takes a ball out of inventory.
C8_SuctionFirst ==
    [][/\ op'.name = "update" =>
            /\ IsPrefix(inventory, inventory')
            /\ \A i \in (Len(entered) + 1)..Len(entered') :
                  /\ entered'[i] \in Ids(inventory')
                  /\ entered'[i] \notin deleted'
       /\ ~(Ids(inventory) \subseteq Ids(inventory')) => op'.name = "eject_ball"]_vars

\* the first update() captured a ball whose centre lies in the delete zone
C8_Witness ==
    /\ op.name = "update"
    /\ frames = 1
    /\ \E i \in 1..Len(inventory) : InZone(inventory[i])

\* min(((100 - d) / 100) * 5, 10) * 0.3 along a unit vector with component
\* c / d, for a ball at distance d
ClaimedImpulse(c, d) ==
    TruncDiv(c * Min(TruncDiv((100 * Scale - d) * 5 * Scale, 100 * Scale), 10 * Scale) * 3,
             d * 10)

\* the ball with identity id after the update, if it is still in a list
After(id) == IF id \in Ids(balls') THEN BallOf(balls', id) ELSE BallOf(inventory', id)

\* C9 as stated: in update() with suction active, a ball at distance d from
\* the focus, 0 < d <= 100, gets the impulse min(((100-d)/100)*5, 10)*0.3
\* along the unit vector from the ball toward the focus (0.75 toward the
\* focus at d = 50); a ball with d > 100 or d = 0 gets none.  The distance
\* is the one _process_suction sees, after the advance step.
C9_Original ==
    [][op'.name = "update" /\ suction_active =>
         \A i \in 1..Len(balls) :
            LET m == BallUpdate(balls[i])
                tx == suction_mouse_pos[1] - m.x
                ty == suction_mouse_pos[2] - m.y
                d == Distance(tx, ty)
            IN  m.id \in Ids(balls') \cup Ids(inventory') =>
                  LET ix == After(m.id).vx - m.vx
                      iy == After(m.id).vy - m.vy
                  IN  IF 0 < d /\ d <= 100 * Scale
                      THEN /\ ix = ClaimedImpulse(tx, d)
                           /\ iy = ClaimedImpulse(ty, d)
                           /\ ix * tx + iy * ty >= 0
                      ELSE ix = 0 /\ iy = 0]_vars

\* C10 as stated: with suction held at a fixed focus and update() called
\* again and again, a ball on the screen within suction_range of the focus
\* is eventually transferred to inventory (unless the delete zone removes it).
C10_Original ==
    (balls # <<>> /\ FocusDistance(balls[1], suction_mouse_pos) <= suction_range)
        ~> (inventory # <<>> \/ deleted # {})

\* the centre of the ball is at least a radius away from every wall
InBounds(b) ==
    /\ b.radius <= b.x /\ b.x <= screen_width - b.radius
    /\ b.radius <= b.y /\ b.y <= screen_height - b.radius

\* C11: after Ball.update, from any position and with any velocity, the
\* radius is unchanged and radius <= x <= width - radius, radius <= y <=
\* height - radius; so every ball on the screen is within these bounds when
\* GameLogic.update() returns, also one that was placed outside them.
C11_Containment ==
    [][/\ op'.name = "Ball.update" =>
            /\ Len(balls') = Len(balls)
            /\ \A i \in 1..Len(balls) :
                  /\ balls'[i].radius = balls[i].radius
                  /\ balls'[i].id = balls[i].id
                  /\ InBounds(balls'[i])
       /\ op'.name = "update" =>
            \A i \in 1..Len(balls') :
                  /\ InBounds(balls'[i])
                  /\ balls'[i].radius = BallOf(balls, balls'[i].id).radius]_vars

\* a ball that started outside the screen on both axes sits in the corner
\* after Ball.update
C11_Witness ==
    /\ op.name = "Ball.update"
    /\ balls # <<>>
    /\ balls[1].x = screen_width - balls[1].radius
    /\ balls[1].y = balls[1].radius

\* the ball crosses the left (top) wall in this step: its edge is beyond 0
\* after the friction and the move
HitsLow(p, v, radius) == p + Friction(v) - radius < 0

\* the ball crosses the right (bottom) wall in this step
HitsHigh(p, v, radius, limit) ==
    ~HitsLow(p, v, radius) /\ p + Friction(v) + radius > limit

\* in general the velocity after a hit does not point into the wall
BouncesAway(b, n) ==
    /\ HitsLow(b.x, b.vx, b.radius) => n.vx >= 0
    /\ HitsHigh(b.x, b.vx, b.radius, screen_width) => n.vx <= 0
    /\ HitsLow(b.y, b.vy, b.radius) => n.vy >= 0
    /\ HitsHigh(b.y, b.vy, b.radius, screen_height) => n.vy <= 0

\* the ball moves left with vx = -2 and its left edge crosses x = 0
LeftHitAtTwo(b) == b.vx = -2 * Scale /\ b.x - TruncDiv(196 * Scale, 100) - b.radius < 0

\* C12 as stated: one Ball.update with the default friction of a ball moving
\* left with vx = -2 whose left edge crosses x = 0 ends with x = radius and
\* vx = +1.6; the velocity after a hit points away from the wall.
C12_Original ==
    [][op'.name = "Ball.update" =>
         \A i \in 1..Len(balls) :
            /\ LeftHitAtTwo(balls[i]) =>
                 /\ balls'[i].x = balls[i].radius
                 /\ balls'[i].vx = TruncDiv(16 * Scale, 10)
            /\ BouncesAway(balls[i], balls'[i])]_vars

\* C12 amended: the ball ends with x = radius and vx = +1.568
\* (= 2 * 0.98 * 0.8: the friction is applied before the bounce); the
\* velocity after a hit points away from the wall.
C12_BounceLaw ==
    [][op'.name = "Ball.update" =>
         \A i \in 1..Len(balls) :
            /\ LeftHitAtTwo(balls[i]) =>
                 /\ balls'[i].x = balls[i].radius
                 /\ balls'[i].vx = TruncDiv(1568 * Scale, 1000)
            /\ BouncesAway(balls[i], balls'[i])]_vars

\* a ball that came in with vx = -2 has bounced off the left wall
C12_Witness ==
    /\ op.name = "Ball.update"
    /\ balls # <<>>
    /\ balls[1].x = balls[1].radius
    /\ balls[1].vx = TruncDiv(1568 * Scale, 1000)

White250 == <<250, 250, 250>>

\* C13 as stated: mixing (250,250,250) with (250,250,250) gives the
\* pre-darken mix (250,250,250), brightness 250 > 200, neither r nor g
\* strictly dominant, so the fallback branch applies and both balls end with
\* the colour (200,200,200).
C13_Original ==
    [][(/\ op'.name = "_mix_colors"
        /\ balls[1].color = White250
        /\ balls[2].color = White250)
       => /\ balls'[1].color = <<200, 200, 200>>
          /\ balls'[2].color = <<200, 200, 200>>]_vars

\* C13 amended: ... the fallback branch applies, which darkens r and g and
\* leaves b alone, and both balls end with the colour (200,200,250).
C13_Darkening ==
    [][(/\ op'.name = "_mix_colors"
        /\ balls[1].color = White250
        /\ balls[2].color = White250)
       => /\ MixChannel(250, 250) = 250
          /\ balls'[1].color = <<200, 200, 250>>
          /\ balls'[2].color = <<200, 200, 250>>]_vars

\* _mix_colors has turned two balls of colour (250,250,250) into (200,200,250)
C13_Witness ==
    /\ op.name = "_mix_colors"
    /\ Len(balls) = 2
    /\ balls[1].color = <<200, 200, 250>>
    /\ balls[2].color = <<200, 200, 250>>

\* centre distance <= sum of the radii, on the squares
Overlap(b1, b2) ==
    (b1.x - b2.x) * (b1.x - b2.x) + (b1.y - b2.y) * (b1.y - b2.y)
        <= (b1.radius + b2.radius) * (b1.radius + b2.radius)

\* C14: _mix_colors gives both balls of the pair one and the same colour;
\* with exactly two balls on the screen that overlap after the advance step
\* (tangency included), both have the same colour when update() returns,
\* whatever their colours were; two balls that do not overlap keep theirs.
C14_Symmetry ==
    [][/\ op'.name = "_mix_colors" => balls'[1].color = balls'[2].color
       /\ (op'.name = "update" /\ Len(balls) = 2 /\ Len(balls') = 2) =>
            /\ Overlap(balls'[1], balls'[2]) =>
                  balls'[1].color = balls'[2].color
            /\ ~Overlap(balls'[1], balls'[2]) =>
                  /\ balls'[1].color = balls[1].color
                  /\ balls'[2].color = balls[2].color]_vars

\* update() has mixed (200,200,200) and (100,100,100) on two tangent balls
C14_Witness ==
    /\ op.name = "update"
    /\ Len(balls) = 2
    /\ balls[2].x - balls[1].x = 30 * Scale
    /\ balls[2].y = balls[1].y
    /\ balls[1].color = <<160, 160, 160>>
    /\ balls[2].color = <<160, 160, 160>>

\* C15: the suction is inactive initially, active after start_suction with
\* the focus at the arguments of that call (a repeated call only moves the
\* focus), inactive after stop_suction; neither call changes the lists or a
\* ball, and no other call, update() included, changes the suction state or
\* the focus.  Hence the suction is active exactly when the latest of the
\* start_suction / stop_suction calls was a start_suction, with its focus.
C15_SuctionState ==
    /\ [](op.name = "init" => ~suction_active)
    /\ [][/\ op'.name = "start_suction" =>
               /\ suction_active'
               /\ suction_mouse_pos' = <<op'.x, op'.y>>
               /\ balls' = balls
               /\ inventory' = inventory
          /\ op'.name = "stop_suction" =>
               /\ ~suction_active'
               /\ balls' = balls
               /\ inventory' = inventory
          /\ op'.name \notin {"start_suction", "stop_suction"} =>
               /\ suction_active' = suction_active
               /\ suction_mouse_pos' = suction_mouse_pos]_vars

\* start_suction was called with suction already collecting: a ball is in
\* the inventory, one on the screen, and the focus is where the call put it
C15_Witness ==
    /\ op.name = "start_suction"
    /\ suction_active
    /\ suction_mouse_pos = <<op.x, op.y>>
    /\ inventory # <<>>
    /\ balls # <<>>

\* the circle of ball b contains the point (x, y), boundary included
Contains(b, x, y) ==
    /\ Abs(x - b.x) <= b.radius
    /\ Abs(y - b.y) <= b.radius
    /\ (x - b.x) * (x - b.x) + (y - b.y) * (y - b.y) <= b.radius * b.radius

\* C16: get_ball_at_position returns the first ball of balls, in list order,
\* whose circle contains the point (boundary included) and None when no ball
\* on the screen contains it; of two balls containing the point the one
\* stored earlier is returned; a ball in inventory or a deleted ball is
\* never returned; the call changes no state.
C16_BallAt ==
    [][op'.name = "get_ball_at_position" =>
         LET hits == {i \in 1..Len(balls) : Contains(balls[i], op'.x, op'.y)}
         IN  /\ hits = {} => ret' = None
             /\ hits # {} =>
                  \E i \in hits : /\ \A j \in hits : i <= j
                                  /\ ret' = balls[i].id
             /\ ret' \notin Ids(inventory) \cup deleted
             /\ balls' = balls
             /\ inventory' = inventory
             /\ suction_active' = suction_active
             /\ suction_mouse_pos' = suction_mouse_pos
             /\ nextId' = nextId
             /\ deleted' = deleted]_vars

\* two balls on the screen both contain the point and the first was returned
C16_Witness ==
    /\ op.name = "get_ball_at_position"
    /\ Len(balls) = 2
    /\ Contains(balls[1], op.x, op.y)
    /\ Contains(balls[2], op.x, op.y)
    /\ ret = balls[1].id

\* the ball m is strictly closer than radius + 10 to the focus, on the squares
StrictlyNear(m, focus) ==
    /\ Abs(m.x - focus[1]) < m.radius + 10 * Scale
    /\ Abs(m.y - focus[2]) < m.radius + 10 * Scale
    /\ (m.x - focus[1]) * (m.x - focus[1]) + (m.y - focus[2]) * (m.y - focus[2])
         < (m.radius + 10 * Scale) * (m.radius + 10 * Scale)

\* C17: update() moves a ball from balls to inventory if and only if the
\* suction is active and the distance of the ball to the focus, taken after
\* the advance step of this update, is strictly less than radius + 10 (a
\* ball at exactly radius + 10 stays); with the suction inactive update()
\* leaves the inventory as it is and gives no ball an impulse.
C17_Capture ==
    [][op'.name = "update" =>
         /\ \A i \in 1..Len(balls) :
               LET m == BallUpdate(balls[i])
                   moved == m.id \in Ids(inventory') /\ m.id \notin Ids(balls')
               IN  /\ moved <=> (suction_active /\ StrictlyNear(m, suction_mouse_pos))
                   /\ ~moved => m.id \notin Ids(inventory')
                   /\ (~suction_active /\ m.id \in Ids(balls')) =>
                         /\ BallOf(balls', m.id).vx = m.vx
                         /\ BallOf(balls', m.id).vy = m.vy
         /\ ~suction_active => inventory' = inventory]_vars

\* with the suction active, a ball at exactly radius + 10 from the focus was
\* left on the screen by update()
C17_Witness ==
    /\ op.name = "update"
    /\ suction_active
    /\ inventory = <<>>
    /\ balls # <<>>
    /\ balls[1].x = suction_mouse_pos[1] + 15 * Scale
    /\ balls[1].y = suction_mouse_pos[2] + 20 * Scale

\* the identities of the balls of a list, in the order of the list
IdSeq(bs) == [i \in 1..Len(bs) |-> bs[i].id]

\* the identities of bs that are in the set S, in the order of bs
Restrict(bs, S) ==
    LET In(id) == id \in S
    IN  SelectSeq(IdSeq(bs), In)

\* C18: the balls one update() captures go to the end of inventory in the
\* order they had in balls, behind the balls inventory already held; the
\* balls that stay in balls keep their order; add_ball and eject_ball put
\* their ball at the end of balls and no other call changes the order of
\* balls, so balls is in creation/ejection order.
C18_TransferOrder ==
    [][
        /\ op'.name = "update" =>
             /\ IdSeq(inventory') =
                  IdSeq(inventory) \o Restrict(balls, Ids(inventory') \ Ids(inventory))
             /\ IdSeq(balls') = Restrict(balls, Ids(balls'))
        /\ (op'.name \in {"add_ball", "eject_ball"} /\ ret' # None) =>
             IdSeq(balls') = Append(IdSeq(balls), ret')
        /\ (op'.name \notin {"update", "add_ball", "eject_ball"} \/
            (op'.name = "eject_ball" /\ ret' = None)) =>
             IdSeq(balls') = IdSeq(balls)]_vars

\* one update() captured two balls
C18_Witness ==
    /\ op.name = "update"
    /\ Len(inventory) = 2
    /\ Len(entered) = 2
    /\ frames = 1

\* the channels of two colours as lines 186-188 mix them, before darkening
Mixed(c1, c2) ==
    <<MixChannel(c1[1], c2[1]), MixChannel(c1[2], c2[2]), MixChannel(c1[3], c2[3])>>

\* the channel the darkening of lines 196-204 leaves alone
Kept(m) ==
    IF m[1] > m[2] /\ m[1] > m[3] THEN 1
    ELSE IF m[2] > m[1] /\ m[2] > m[3] THEN 2
    ELSE 3

\* C19: balls created with integer colour channels in [0, 255] keep integer
\* channels in [0, 255], on the screen and in the inventory, whatever is
\* called; and when the mixed colour has brightness > 200, each of the two
\* channels that are darkened is at least 50 afterwards.
C19_ColorRange ==
    /\ [](\A i \in 1..Len(balls \o inventory), k \in 1..3 :
             (balls \o inventory)[i].color[k] \in 0..255)
    /\ [][op'.name = "_mix_colors" =>
            LET m == Mixed(balls[1].color, balls[2].color)
            IN  m[1] + m[2] + m[3] > 3 * 200 =>
                  \A i \in 1..2, k \in (1..3) \ {Kept(m)} :
                      /\ balls'[i].color[k] >= 50
                      /\ balls'[i].color[k] <= m[k]]_vars

\* a mixed colour (254, 253, 94) of brightness 200.33 was darkened: its
\* channel 94 went to the floor 50 and its channel 253 to 203
C19_Witness ==
    /\ op.name = "_mix_colors"
    /\ Len(balls) = 2
    /\ balls[1].color = <<254, 203, 50>>
    /\ balls[2].color = <<254, 203, 50>>

\* the velocity v has speed at most 5
SlowEject(v) ==
    /\ Abs(v[1]) <= 5 * Scale
    /\ Abs(v[2]) <= 5 * Scale
    /\ v[1] * v[1] + v[2] * v[2] <= (5 * Scale) * (5 * Scale)

\* this step is the update() that follows an eject_ball(F.x, F.y) of speed
\* at most 5 that returned a ball, the suction being active with focus F
UpdateAfterEjectAtFocus ==
    /\ op'.name = "update"
    /\ op.name = "eject_ball"
    /\ ret # None
    /\ suction_active
    /\ suction_mouse_pos = <<op.x, op.y>>
    /\ SlowEject(op.v)

\* C20 as stated: that update() takes the ejected ball back, and the
\* inventory is then the list it was before the eject (the inventory after
\* the eject with the ejected ball at its end).  Violated when another ball
\* is captured by the same update().
C20_Original ==
    [][UpdateAfterEjectAtFocus =>
         /\ ret \notin Ids(balls')
         /\ IdSeq(inventory') = Append(IdSeq(inventory), ret)]_vars

\* C20: that update() takes the ejected ball back: the ball is not in balls,
\* it is the last element of inventory again and the balls inventory held
\* keep their places; the inventory is the list it was before the eject
\* when no other ball on the screen is strictly within radius + 10 of the
\* focus after the advance step of that update().
C20_Recapture ==
    [][UpdateAfterEjectAtFocus =>
         /\ ret \notin Ids(balls')
         /\ inventory' # <<>>
         /\ inventory'[Len(inventory')].id = ret
         /\ IsPrefix(IdSeq(inventory), IdSeq(inventory'))
         /\ (\A i \in 1..Len(balls) :
                balls[i].id # ret =>
                  ~StrictlyNear(BallUpdate(balls[i]), suction_mouse_pos))
              => IdSeq(inventory') = Append(IdSeq(inventory), ret)]_vars

\* a ball ejected at the focus (400, 300) with velocity (3, 0) is back in
\* inventory, where the next update() put it after its advance to x = 402.94
C20_Witness ==
    /\ op.name = "update"
    /\ suction_active
    /\ suction_mouse_pos = Pt(400, 300)
    /\ \E i \in 1..Len(inventory) :
         /\ inventory[i].x = 400 * Scale + 294
         /\ inventory[i].y = 300 * Scale

====
